---- MODULE Spec2Model ----
(***************************************************************************)
(* The data source resolution cache (dsCache): check() rebuilds the        *)
(* per-org indices from the data source catalog, getDS() refreshes a stale *)
(* cache and looks an identifier up in the caller's org.                   *)
(***************************************************************************)
EXTENDS Integers, Sequences, FiniteSets, TLC

\* ------------------------------------------------------------------------
\* Bounds of the model
\* ------------------------------------------------------------------------
\* most records the catalog query returns
MaxCalls == 2
MaxDS == 2
\* most clock ticks of a behaviour
MaxTicks == 3
\* seconds per clock tick
TickSeconds == 30
\* the clock's reading when the cache is constructed
StartTime == 120

\* ------------------------------------------------------------------------
\* Program constants and input domains
\* ------------------------------------------------------------------------
\* time.Minute, in seconds
Minute == 60
\* the zero time.Time of a fresh dsCache
ZeroTime == 0
\* grafanads.DatasourceUID
DatasourceUID == "grafana"

Orgs == {1, 2}
Ids == {7, 10}
\* uids and names of org 1: free ones, one that is a stringified id, "default"
UIDs == {"abc", "7", "default"}
Names == {"Prometheus", "7", "default"}
\* uids and names of org 2: free ones and the built-in's
BuiltInUIDs == {"abc", DatasourceUID}
BuiltInNames == {"Prometheus", DatasourceUID}
Types == {"prometheus", "loki"}
\* identifiers callers ask for
LookupKeys == {"", "default", DatasourceUID, "abc", "zzz"}

NilErr == "nil"
ErrCatalog == "catalog unavailable"
NilDS == [nil |-> TRUE]

\* the plugin type of the catalog's records: the record with id 7 is a
\* prometheus data source, the other a loki one
TypeOf(id) == IF id = 7 THEN "prometheus" ELSE "loki"

\* datasources.DataSource, the fields check() reads: the records of org 1
\* collide on ids, uids, names and "default", those of org 2 with the built-in
DataSources ==
  {[OrgId |-> 1, Id |-> id, Uid |-> uid, Name |-> name, Type |-> TypeOf(id), IsDefault |-> d] :
     id \in Ids, uid \in UIDs, name \in Names, d \in BOOLEAN}
  \cup
  {[OrgId |-> 2, Id |-> 7, Uid |-> uid, Name |-> name, Type |-> TypeOf(7), IsDefault |-> d] :
     uid \in BuiltInUIDs, name \in BuiltInNames, d \in BOOLEAN}

\* what GetAllDataSources can return in q.Result
Catalogs == UNION {[1..n -> DataSources] : n \in 0..MaxDS}

\* the record of the scenario, in either org, default or not
ScenarioDataSources ==
  {ds \in DataSources : ds.Id = 7 /\ ds.Uid = "abc" /\ ds.Name = "Prometheus"}

ScenarioCatalogs == UNION {[1..n -> ScenarioDataSources] : n \in 0..MaxDS}

\* ------------------------------------------------------------------------
\* Helpers
\* ------------------------------------------------------------------------
Digit == <<"0", "1", "2", "3", "4", "5", "6", "7", "8", "9">>

\* fmt.Sprintf("%d", n)
RECURSIVE Sprintf(_)
Sprintf(n) ==
  IF n < 0 THEN "-" \o Sprintf(0 - n)
  ELSE IF n < 10 THEN Digit[n + 1]
  ELSE Sprintf(n \div 10) \o Digit[(n % 10) + 1]

\* m[k] = v on a Go map
Put(m, k, v) == [x \in DOMAIN m \cup {k} |-> IF x = k THEN v ELSE m[x]]

\* the empty Go map
EmptyMap == <<>>

\* the orders in which a range loop can visit the keys of a map
Perms(S) == {f \in [1..Cardinality(S) -> S] : \A i, j \in 1..Cardinality(S) : f[i] = f[j] => i = j}

\* NewDsVal that takes every plugin for installed
NewDsValPluginAlways(ds, plugins) ==
  [InternalID |-> ds.Id, IsDefault |-> ds.IsDefault, Name |-> ds.Name,
   Type |-> ds.Type, UID |-> ds.Uid, PluginExists |-> TRUE]

\* the dsVal check() makes of one catalog record
NewDsVal(ds, plugins) ==
  [InternalID |-> ds.Id, Name |-> ds.Name, UID |-> ds.Uid, Type |-> ds.Type,
   IsDefault |-> ds.IsDefault, PluginExists |-> ds.Type \in plugins]

\* the built-in grafana data source
gds ==
  [InternalID |-> 0, Name |-> DatasourceUID, UID |-> DatasourceUID, Type |-> DatasourceUID,
   IsDefault |-> FALSE, PluginExists |-> TRUE]

\* FileRecord with every record filed in the index of org 1
FileRecordOneOrg(acc, ds, plugins) ==
  LET val == NewDsVal(ds, plugins)
      orgCache == IF 1 \in DOMAIN acc.cache THEN acc.cache[1] ELSE EmptyMap
  IN [cache |-> Put(acc.cache, 1, Put(orgCache, val.UID, val)),
      defaultDS |-> IF val.IsDefault THEN Put(acc.defaultDS, ds.OrgId, val)
                    ELSE acc.defaultDS]

\* FileRecord with the record filed under its name instead of its uid
FileRecordByName(acc, ds, plugins) ==
  LET val == NewDsVal(ds, plugins)
      orgCache == IF ds.OrgId \in DOMAIN acc.cache THEN acc.cache[ds.OrgId] ELSE EmptyMap
  IN [cache |-> Put(acc.cache, ds.OrgId, Put(orgCache, val.Name, val)),
      defaultDS |-> IF val.IsDefault THEN Put(acc.defaultDS, ds.OrgId, val)
                    ELSE acc.defaultDS]

\* FileRecord with every record remembered as its org's default
FileRecordAnyDefault(acc, ds, plugins) ==
  LET val == NewDsVal(ds, plugins)
      orgCache == IF ds.OrgId \in DOMAIN acc.cache THEN acc.cache[ds.OrgId] ELSE EmptyMap
  IN [cache |-> Put(acc.cache, ds.OrgId, Put(orgCache, val.UID, val)),
      defaultDS |-> Put(acc.defaultDS, ds.OrgId, val)]

\* one iteration of the first loop of check(): file the record under its uid,
\* remember it as its org's default when it is marked so
FileRecord(acc, ds, plugins) ==
  LET val == NewDsVal(ds, plugins)
      orgCache == IF ds.OrgId \in DOMAIN acc.cache THEN acc.cache[ds.OrgId] ELSE EmptyMap
  IN [cache |-> Put(acc.cache, ds.OrgId, Put(orgCache, val.UID, val)),
      defaultDS |-> IF val.IsDefault THEN Put(acc.defaultDS, ds.OrgId, val)
                    ELSE acc.defaultDS]

\* the first loop of check(), over q.Result in order
RECURSIVE FileByUID(_, _, _, _)
FileByUID(result, plugins, i, acc) ==
  IF i > Len(result) THEN acc
  ELSE FileByUID(result, plugins, i + 1, FileRecord(acc, result[i], plugins))

\* IndexRecord that files the id and the name over whatever holds the key
IndexRecordOverwrites(orgDSCache, ds) ==
  Put(Put(orgDSCache, Sprintf(ds.InternalID), ds), ds.Name, ds)

\* IndexRecord without the lookup by name
IndexRecordIdOnly(orgDSCache, ds) ==
  LET id == Sprintf(ds.InternalID)
  IN IF id \in DOMAIN orgDSCache THEN orgDSCache ELSE Put(orgDSCache, id, ds)

\* one iteration of the inner loop of check(): lookup by internal id and by
\* name, each filed only when the key is free
IndexRecord(orgDSCache, ds) ==
  LET id == Sprintf(ds.InternalID)
      m1 == IF id \in DOMAIN orgDSCache THEN orgDSCache ELSE Put(orgDSCache, id, ds)
  IN IF ds.Name \in DOMAIN m1 THEN m1 ELSE Put(m1, ds.Name, ds)

\* the inner loop of check(), visiting the uid entries in the given order
\* (entries the loop itself adds point to a record already visited or still to
\* be visited, and visiting a record twice changes nothing)
RECURSIVE IndexSecondary(_, _, _)
IndexSecondary(orgDSCache, order, i) ==
  IF i > Len(order) THEN orgDSCache
  ELSE IndexSecondary(IndexRecord(orgDSCache, orgDSCache[order[i]]), order, i + 1)

\* AddBuiltIn with the built-in entry filed only when its key is free
AddBuiltInIfFree(orgDSCache, orgID, defaultDS) ==
  LET m1 == IF gds.UID \in DOMAIN orgDSCache THEN orgDSCache ELSE Put(orgDSCache, gds.UID, gds)
      ds == IF orgID \in DOMAIN defaultDS THEN defaultDS[orgID] ELSE gds
      m2 == Put(m1, "", ds)
  IN IF "default" \in DOMAIN m2 THEN m2 ELSE Put(m2, "default", ds)

\* AddBuiltIn with the built-in descriptor, not the org's default, filed under
\* "default"
AddBuiltInAsDefault(orgDSCache, orgID, defaultDS) ==
  LET m1 == Put(orgDSCache, gds.UID, gds)
      ds == IF orgID \in DOMAIN defaultDS THEN defaultDS[orgID] ELSE gds
      m2 == Put(m1, "", ds)
  IN IF "default" \in DOMAIN m2 THEN m2 ELSE Put(m2, "default", gds)

\* the rest of the per-org loop body: built-in entry, "" and "default"
AddBuiltIn(orgDSCache, orgID, defaultDS) ==
  LET m1 == Put(orgDSCache, gds.UID, gds)
      ds == IF orgID \in DOMAIN defaultDS THEN defaultDS[orgID] ELSE gds
      m2 == Put(m1, "", ds)
  IN IF "default" \in DOMAIN m2 THEN m2 ELSE Put(m2, "default", ds)

\* the uid-keyed maps and the defaults the first loop leaves
ByUID(result, plugins) ==
  FileByUID(result, plugins, 1, [cache |-> EmptyMap, defaultDS |-> EmptyMap])

\* the orders the second loop can take over the maps the first loop left:
\* per org, an order of its uid keys
OrdersOf(byUID) ==
  {o \in [DOMAIN byUID -> UNION {Perms(DOMAIN byUID[g]) : g \in DOMAIN byUID}] :
     \A g \in DOMAIN byUID : o[g] \in Perms(DOMAIN byUID[g])}

\* the orders the range loops can take: per org, an order of its uid keys
RangeOrders(result, plugins) ==
  LET byUID == ByUID(result, plugins).cache
  IN {o \in [DOMAIN byUID -> UNION {Perms(DOMAIN byUID[g]) : g \in DOMAIN byUID}] :
        \A g \in DOMAIN byUID : o[g] \in Perms(DOMAIN byUID[g])}

\* what the second loop makes of the maps the first loop left
IndexOrgs(byUID, defaultDS, order) ==
  [g \in DOMAIN byUID |-> AddBuiltIn(IndexSecondary(byUID[g], order[g], 1), g, defaultDS)]

\* the map check() builds from q.Result
BuildCache(result, plugins, order) ==
  LET first == ByUID(result, plugins)
  IN [g \in DOMAIN first.cache |->
        AddBuiltIn(IndexSecondary(first.cache[g], order[g], 1), g, first.defaultDS)]

\* ------------------------------------------------------------------------
\* State
\* ------------------------------------------------------------------------
\* the goroutines that call getDS at the same time
Callers == {1, 2}

\* what a caller holds before its first call
NoLocals ==
  [orgID |-> 0, uid |-> "", stale |-> FALSE, seen |-> ZeroTime, old |-> ZeroTime,
   t |-> ZeroTime, result |-> <<>>, i |-> 0, cache |-> EmptyMap, defaultDS |-> EmptyMap,
   queried |-> "no", queries |-> 0, err |-> NilErr, ds |-> NilDS, calls |-> 0]

VARIABLES
  catalog,    \* what the data source service holds
  plugins,    \* plugin ids the registry knows
  now,        \* getNow()
  cache,      \* dsCache.cache: [isNil, m]
  timestamp,  \* dsCache.timestamp
  last,       \* the last check() called on its own: its result, its catalog queries
  mu,         \* dsCache.mu: 0 when free, else the caller that holds it
  pc,         \* where each concurrent caller of getDS stands
  loc         \* the local variables of each concurrent caller

vars == <<catalog, plugins, now, cache, timestamp, last, mu, pc, loc>>

\* the state of the concurrent callers
conc == <<mu, pc, loc>>

NilCache == [isNil |-> TRUE, m |-> EmptyMap]

\* no caller has called yet and the mutex is free
NoCallers ==
  /\ mu = 0
  /\ pc = [c \in Callers |-> "idle"]
  /\ loc = [c \in Callers |-> NoLocals]

NoCall == [op |-> "none", orgID |-> 0, uid |-> "", ds |-> NilDS, err |-> NilErr, queries |-> 0]

\* a dsCache right after construction, over any catalog of DataSources
InitCheck ==
  /\ catalog \in Catalogs
  /\ plugins = {"prometheus"}
  /\ now = StartTime
  /\ cache = NilCache
  /\ timestamp = ZeroTime
  /\ last = NoCall
  /\ NoCallers

\* a dsCache right after construction, over a catalog of the scenario's records
Init ==
  /\ catalog \in ScenarioCatalogs
  /\ plugins \in SUBSET {"prometheus"}
  /\ now = StartTime
  /\ cache = NilCache
  /\ timestamp = ZeroTime
  /\ last = NoCall
  /\ NoCallers

\* check() with no other caller around: the timestamp it captured is still the
\* live one, so it queries the catalog and, unless the query fails, publishes
check(failed, order) ==
  IF failed
  THEN [cache |-> cache, timestamp |-> timestamp, err |-> ErrCatalog]
  ELSE [cache |-> [isNil |-> FALSE, m |-> BuildCache(catalog, plugins, order)],
        timestamp |-> now, err |-> NilErr]

\* Expired with a timestamp exactly one minute old counted as expired
ExpiredInclusive(ts, t) == ts <= t - Minute

\* c.timestamp.Before(getNow().Add(time.Minute*-1)), for the timestamp ts and
\* the getNow() t that line 120 has read
Expired(ts, t) == ts < t - Minute

\* Return with the refresh error dropped when the lookup finds a descriptor
ReturnNilErrOnHit(c, orgID, uid, err) ==
  IF orgID \notin DOMAIN c.m THEN [ds |-> NilDS, err |-> err]
  ELSE IF uid \notin DOMAIN c.m[orgID] THEN [ds |-> NilDS, err |-> err]
  ELSE [ds |-> c.m[orgID][uid], err |-> NilErr]

\* the lookup of getDS and what it returns with the error of the refresh
Return(c, orgID, uid, err) ==
  IF orgID \notin DOMAIN c.m THEN [ds |-> NilDS, err |-> err]
  ELSE IF uid \notin DOMAIN c.m[orgID] THEN [ds |-> NilDS, err |-> err]
  ELSE [ds |-> c.m[orgID][uid], err |-> err]

\* what a getDS on cache c would find for (orgID, uid)
Lookup(c, orgID, uid) == Return(c, orgID, uid, NilErr).ds

\* the catalog query of a check() can fail; when it does not, the range loops
\* take one of their orders
Outcomes ==
  {[failed |-> TRUE, order |-> EmptyMap]}
  \cup {[failed |-> FALSE, order |-> o] : o \in RangeOrders(catalog, plugins)}

\* check() called on its own
Refresh ==
  \E out \in Outcomes :
    LET done == check(out.failed, out.order)
    IN /\ cache' = done.cache
       /\ timestamp' = done.timestamp
       /\ last' = [op |-> "check", orgID |-> 0, uid |-> "", ds |-> NilDS,
                   err |-> done.err, queries |-> 1]
       /\ UNCHANGED <<catalog, plugins, now, conc>>

\* the clock advances
Tick ==
  /\ now < StartTime + MaxTicks * TickSeconds
  /\ now' = now + TickSeconds
  /\ UNCHANGED <<catalog, plugins, cache, timestamp, last, conc>>

\* a data source is deleted from the catalog
DeleteDataSource ==
  /\ catalog # <<>>
  /\ catalog' = SubSeq(catalog, 1, Len(catalog) - 1)
  /\ UNCHANGED <<plugins, now, cache, timestamp, last, conc>>

NextCheck == Refresh

\* check() called again and again on an unchanging catalog
SpecCheck == InitCheck /\ [][NextCheck]_vars

\* a plugin is installed: pluginRegistry.Plugin starts to find it
InstallPlugin ==
  \E p \in {"prometheus"} \ plugins :
    /\ plugins' = plugins \cup {p}
    /\ UNCHANGED <<catalog, now, cache, timestamp, last, conc>>

\* a plugin is uninstalled: pluginRegistry.Plugin stops finding it
UninstallPlugin ==
  \E p \in plugins :
    /\ plugins' = plugins \ {p}
    /\ UNCHANGED <<catalog, now, cache, timestamp, last, conc>>

\* ------------------------------------------------------------------------
\* getDS called by several goroutines at once, statement by statement
\* ------------------------------------------------------------------------
\* the catalogs the concurrent callers run over: one default record
ConcCatalogs == {c \in ScenarioCatalogs : Len(c) = 1 /\ c[1].IsDefault}

\* the org the concurrent callers ask for: the org of the record in one of
\* the catalogs, an org without records in the other
ConcOrgs == {1}

\* the keys the concurrent callers look up: a uid and an unknown key
ConcKeys == {"abc", "zzz"}

\* the statements of check() a caller executes while it holds the mutex
Critical == {"recheck", "query", "file", "index", "publish", "getnow", "stamp", "unlock"}

InitConc ==
  /\ catalog \in ConcCatalogs
  /\ plugins = {"prometheus"}
  /\ now = StartTime
  /\ cache = NilCache
  /\ timestamp = ZeroTime
  /\ last = NoCall
  /\ NoCallers

\* caller c moves to statement p with locals l
Goto(c, p, l) ==
  /\ pc' = [pc EXCEPT ![c] = p]
  /\ loc' = [loc EXCEPT ![c] = l]

\* line 120, c.cache == nil: getDS reads c.cache without the mutex; when it is
\* nil the rest of the condition is not evaluated
Enter(c, orgID, uid) ==
  /\ pc[c] = "idle"
  /\ loc[c].calls < MaxCalls
  /\ Goto(c, IF cache.isNil THEN "capture" ELSE "test",
          [NoLocals EXCEPT !.orgID = orgID, !.uid = uid, !.stale = cache.isNil,
                           !.calls = loc[c].calls + 1])
  /\ UNCHANGED <<catalog, plugins, now, cache, timestamp, last, mu>>

\* line 120 once c.timestamp and getNow() are both read: check() is next when
\* the timestamp has expired, the lookup when it has not
Decide(c, l) ==
  Goto(c, IF Expired(l.seen, l.t) THEN "capture" ELSE "read",
       [l EXCEPT !.stale = Expired(l.seen, l.t), !.t = ZeroTime])

\* line 120, c.timestamp: read without the mutex, before or after getNow() is
\* called (the order of a variable read and a call in one expression is not
\* specified)
TestTimestamp(c) ==
  /\ pc[c] \in {"test", "test_now"}
  /\ LET l == [loc[c] EXCEPT !.seen = timestamp]
     IN IF pc[c] = "test" THEN Goto(c, "test_ts", l) ELSE Decide(c, l)
  /\ UNCHANGED <<catalog, plugins, now, cache, timestamp, last, mu>>

\* line 120, getNow()
TestNow(c) ==
  /\ pc[c] \in {"test", "test_ts"}
  /\ LET l == [loc[c] EXCEPT !.t = now]
     IN IF pc[c] = "test" THEN Goto(c, "test_now", l) ELSE Decide(c, l)
  /\ UNCHANGED <<catalog, plugins, now, cache, timestamp, last, mu>>

\* line 33: old := c.timestamp, before the mutex is asked for
Capture(c) ==
  /\ pc[c] = "capture"
  /\ Goto(c, "lock", [loc[c] EXCEPT !.old = timestamp])
  /\ UNCHANGED <<catalog, plugins, now, cache, timestamp, last, mu>>

\* line 35: c.mu.Lock()
Lock(c) ==
  /\ pc[c] = "lock"
  /\ mu = 0
  /\ mu' = c
  /\ Goto(c, "recheck", loc[c])
  /\ UNCHANGED <<catalog, plugins, now, cache, timestamp, last>>

\* Recheck that goes on to the query whatever the timestamp is
RecheckAlwaysQueries(c) ==
  /\ pc[c] = "recheck"
  /\ Goto(c, "query", loc[c])
  /\ UNCHANGED <<catalog, plugins, now, cache, timestamp, last, mu>>

\* Recheck whose early return skips the deferred Unlock
RecheckKeepsLock(c) ==
  /\ pc[c] = "recheck"
  /\ Goto(c, IF timestamp # loc[c].old THEN "read" ELSE "query",
          [loc[c] EXCEPT !.err = NilErr])
  /\ UNCHANGED <<catalog, plugins, now, cache, timestamp, last, mu>>

\* lines 38-40: if c.timestamp != old { return nil }
Recheck(c) ==
  /\ pc[c] = "recheck"
  /\ IF timestamp # loc[c].old
     THEN Goto(c, "unlock", [loc[c] EXCEPT !.err = NilErr])
     ELSE Goto(c, "query", loc[c])
  /\ UNCHANGED <<catalog, plugins, now, cache, timestamp, last, mu>>

\* Query that drops the snapshot when the catalog query fails
QueryDropsCache(c) ==
  /\ pc[c] = "query"
  /\ \/ /\ cache' = NilCache
        /\ timestamp' = ZeroTime
        /\ Goto(c, "unlock", [loc[c] EXCEPT !.err = ErrCatalog, !.queried = "failed",
                                            !.queries = loc[c].queries + 1])
     \/ /\ UNCHANGED <<cache, timestamp>>
        /\ Goto(c, IF catalog = <<>> THEN "index" ELSE "file",
                [loc[c] EXCEPT !.result = catalog, !.i = 1, !.queried = "ok",
                               !.queries = loc[c].queries + 1])
  /\ UNCHANGED <<catalog, plugins, now, last, mu>>

\* Query whose error return skips the deferred Unlock
QueryKeepsLock(c) ==
  /\ pc[c] = "query"
  /\ \/ Goto(c, "read", [loc[c] EXCEPT !.err = ErrCatalog, !.queried = "failed",
                                        !.queries = loc[c].queries + 1])
     \/ Goto(c, IF catalog = <<>> THEN "index" ELSE "file",
             [loc[c] EXCEPT !.result = catalog, !.i = 1, !.queried = "ok",
                            !.queries = loc[c].queries + 1])
  /\ UNCHANGED <<catalog, plugins, now, cache, timestamp, last, mu>>

\* lines 42-49: GetAllDataSources; on an error check() returns it
Query(c) ==
  /\ pc[c] = "query"
  /\ \/ Goto(c, "unlock", [loc[c] EXCEPT !.err = ErrCatalog, !.queried = "failed",
                                        !.queries = loc[c].queries + 1])
     \/ Goto(c, IF catalog = <<>> THEN "index" ELSE "file",
             [loc[c] EXCEPT !.result = catalog, !.i = 1, !.queried = "ok",
                            !.queries = loc[c].queries + 1])
  /\ UNCHANGED <<catalog, plugins, now, cache, timestamp, last, mu>>

\* File that also makes the map it has filled so far the live one
FilePublishes(c) ==
  /\ pc[c] = "file"
  /\ LET l == loc[c]
         acc == FileRecord([cache |-> l.cache, defaultDS |-> l.defaultDS], l.result[l.i], plugins)
     IN /\ Goto(c, IF l.i = Len(l.result) THEN "index" ELSE "file",
                [l EXCEPT !.cache = acc.cache, !.defaultDS = acc.defaultDS, !.i = l.i + 1])
        /\ cache' = [isNil |-> FALSE, m |-> acc.cache]
  /\ UNCHANGED <<catalog, plugins, now, timestamp, last, mu>>

\* lines 51-74: one iteration of the first loop, which asks the plugin
\* registry about the record's type (line 59) and files the record in the
\* local maps; after the last record the second loop is next
File(c) ==
  /\ pc[c] = "file"
  /\ LET l == loc[c]
         acc == FileRecord([cache |-> l.cache, defaultDS |-> l.defaultDS], l.result[l.i], plugins)
     IN Goto(c, IF l.i = Len(l.result) THEN "index" ELSE "file",
             [l EXCEPT !.cache = acc.cache, !.defaultDS = acc.defaultDS, !.i = l.i + 1])
  /\ UNCHANGED <<catalog, plugins, now, cache, timestamp, last, mu>>

\* lines 76-109: the second loop completes the local maps
Index(c) ==
  /\ pc[c] = "index"
  /\ \E order \in OrdersOf(loc[c].cache) :
       Goto(c, "publish",
            [loc[c] EXCEPT !.cache = IndexOrgs(loc[c].cache, loc[c].defaultDS, order)])
  /\ UNCHANGED <<catalog, plugins, now, cache, timestamp, last, mu>>

\* line 111: c.cache = cache
Publish(c) ==
  /\ pc[c] = "publish"
  /\ cache' = [isNil |-> FALSE, m |-> loc[c].cache]
  /\ Goto(c, "getnow", loc[c])
  /\ UNCHANGED <<catalog, plugins, now, timestamp, last, mu>>

\* line 112, getNow(): the clock is read before the store
GetNow(c) ==
  /\ pc[c] = "getnow"
  /\ Goto(c, "stamp", [loc[c] EXCEPT !.t = now])
  /\ UNCHANGED <<catalog, plugins, now, cache, timestamp, last, mu>>

\* lines 112-113: c.timestamp = the time GetNow read; return nil
Stamp(c) ==
  /\ pc[c] = "stamp"
  /\ timestamp' = loc[c].t
  /\ Goto(c, "unlock", [loc[c] EXCEPT !.err = NilErr])
  /\ UNCHANGED <<catalog, plugins, now, cache, last, mu>>

\* line 36: the deferred c.mu.Unlock(), run on each return of check(), whose
\* local maps and query result end with it
Unlock(c) ==
  /\ pc[c] = "unlock"
  /\ mu' = 0
  /\ Goto(c, "read", [loc[c] EXCEPT !.t = ZeroTime, !.result = <<>>, !.i = 0,
                                    !.cache = EmptyMap, !.defaultDS = EmptyMap])
  /\ UNCHANGED <<catalog, plugins, now, cache, timestamp, last>>

\* lines 124-134: the lookup in c.cache, without the mutex, and the return
Read(c) ==
  /\ pc[c] = "read"
  /\ LET ret == Return(cache, loc[c].orgID, loc[c].uid, loc[c].err)
     IN Goto(c, "idle", [loc[c] EXCEPT !.ds = ret.ds, !.err = ret.err])
  /\ UNCHANGED <<catalog, plugins, now, cache, timestamp, last, mu>>

NextConc ==
  \/ \E c \in Callers, orgID \in ConcOrgs, uid \in ConcKeys : Enter(c, orgID, uid)
  \/ \E c \in Callers : TestTimestamp(c)
  \/ \E c \in Callers : TestNow(c)
  \/ \E c \in Callers : Capture(c)
  \/ \E c \in Callers : Lock(c)
  \/ \E c \in Callers : Recheck(c)
  \/ \E c \in Callers : Query(c)
  \/ \E c \in Callers : File(c)
  \/ \E c \in Callers : Index(c)
  \/ \E c \in Callers : Publish(c)
  \/ \E c \in Callers : GetNow(c)
  \/ \E c \in Callers : Stamp(c)
  \/ \E c \in Callers : Unlock(c)
  \/ \E c \in Callers : Read(c)
  \/ Tick

\* getDS calls of several goroutines on one dsCache, interleaved statement by
\* statement, the clock advancing in between
SpecConc == InitConc /\ [][NextConc]_vars

\* one goroutine on its own
OneCaller == {1}

Next ==
  \/ \E c \in OneCaller, orgID \in Orgs, uid \in LookupKeys : Enter(c, orgID, uid)
  \/ \E c \in OneCaller : TestTimestamp(c)
  \/ \E c \in OneCaller : TestNow(c)
  \/ \E c \in OneCaller : Capture(c)
  \/ \E c \in OneCaller : Lock(c)
  \/ \E c \in OneCaller : Recheck(c)
  \/ \E c \in OneCaller : Query(c)
  \/ \E c \in OneCaller : File(c)
  \/ \E c \in OneCaller : Index(c)
  \/ \E c \in OneCaller : Publish(c)
  \/ \E c \in OneCaller : GetNow(c)
  \/ \E c \in OneCaller : Stamp(c)
  \/ \E c \in OneCaller : Unlock(c)
  \/ \E c \in OneCaller : Read(c)
  \/ Tick
  \/ DeleteDataSource

\* getDS calls of one caller, statement by statement, the clock and the
\* catalog changing in between
Spec == Init /\ [][Next]_vars

\* the keys looked up while the registry changes: a uid and the default
RegistryKeys == {"abc", ""}

NextRegistry ==
  \/ \E c \in OneCaller, orgID \in Orgs, uid \in RegistryKeys : Enter(c, orgID, uid)
  \/ \E c \in OneCaller : TestTimestamp(c)
  \/ \E c \in OneCaller : TestNow(c)
  \/ \E c \in OneCaller : Capture(c)
  \/ \E c \in OneCaller : Lock(c)
  \/ \E c \in OneCaller : Recheck(c)
  \/ \E c \in OneCaller : Query(c)
  \/ \E c \in OneCaller : File(c)
  \/ \E c \in OneCaller : Index(c)
  \/ \E c \in OneCaller : Publish(c)
  \/ \E c \in OneCaller : GetNow(c)
  \/ \E c \in OneCaller : Stamp(c)
  \/ \E c \in OneCaller : Unlock(c)
  \/ \E c \in OneCaller : Read(c)
  \/ Tick
  \/ InstallPlugin
  \/ UninstallPlugin

\* getDS calls of one caller, statement by statement, the clock and the
\* plugin registry changing in between
SpecRegistry == Init /\ [][NextRegistry]_vars

\* a statement of a call that has begun: every one but the call itself
Step(c) ==
  \/ TestTimestamp(c)
  \/ TestNow(c)
  \/ Capture(c)
  \/ Lock(c)
  \/ Recheck(c)
  \/ Query(c)
  \/ File(c)
  \/ Index(c)
  \/ Publish(c)
  \/ GetNow(c)
  \/ Stamp(c)
  \/ Unlock(c)
  \/ Read(c)

\* the scheduler lets every goroutine that can run its next statement run it,
\* the catalog query and the plugin registry return, and sync.Mutex hands the
\* lock to a goroutine that keeps waiting for it
Fairness ==
  \A c \in Callers :
    /\ WF_vars(TestTimestamp(c))
    /\ WF_vars(TestNow(c))
    /\ WF_vars(Capture(c))
    /\ SF_vars(Lock(c))
    /\ WF_vars(Recheck(c))
    /\ WF_vars(Query(c))
    /\ WF_vars(File(c))
    /\ WF_vars(Index(c))
    /\ WF_vars(Publish(c))
    /\ WF_vars(GetNow(c))
    /\ WF_vars(Stamp(c))
    /\ WF_vars(Unlock(c))
    /\ WF_vars(Read(c))

\* the callers look up one key of one org, and the clock advances, so that a
\* snapshot goes stale again while calls are under way
NextConcFair ==
  \/ \E c \in Callers : Enter(c, 1, "abc")
  \/ \E c \in Callers : TestTimestamp(c)
  \/ \E c \in Callers : TestNow(c)
  \/ \E c \in Callers : Capture(c)
  \/ \E c \in Callers : Lock(c)
  \/ \E c \in Callers : Recheck(c)
  \/ \E c \in Callers : Query(c)
  \/ \E c \in Callers : File(c)
  \/ \E c \in Callers : Index(c)
  \/ \E c \in Callers : Publish(c)
  \/ \E c \in Callers : GetNow(c)
  \/ \E c \in Callers : Stamp(c)
  \/ \E c \in Callers : Unlock(c)
  \/ \E c \in Callers : Read(c)
  \/ Tick

\* the fair callers run over the catalog that has the record they look up
InitConcFair ==
  /\ InitConc
  /\ catalog[1].OrgId = 1

\* the concurrent getDS calls under a fair scheduler
SpecConcFair == InitConcFair /\ [][NextConcFair]_vars /\ Fairness

\* ------------------------------------------------------------------------
\* Definitions the claims share
\* ------------------------------------------------------------------------
\* the catalog records of org g, by their position in the catalog
RecordsOf(g) == {i \in 1..Len(catalog) : catalog[i].OrgId = g}

\* descriptor d carries the fields of catalog record r
Describes(d, r) ==
  /\ d # NilDS
  /\ d.InternalID = r.Id
  /\ d.Name = r.Name
  /\ d.UID = r.Uid
  /\ d.Type = r.Type
  /\ d.IsDefault = r.IsDefault

\* a refresh has succeeded: a snapshot is published
Published == ~cache.isNil

\* the step is caller c reading c.cache at line 120, at the start of a call
EnterStep(c) == pc[c] = "idle" /\ pc'[c] # "idle"

\* the step is caller c reading c.timestamp at line 120, having found c.cache
\* not nil
TimestampStep(c) ==
  \/ pc[c] = "test" /\ pc'[c] = "test_ts"
  \/ pc[c] = "test_now" /\ pc'[c] # "test_now"

\* the step is caller c settling line 120 with both operands read
DecideStep(c) == pc[c] \in {"test_ts", "test_now"} /\ pc'[c] \in {"capture", "read"}

\* the step is caller c doing its lookup and returning from getDS
ReadStep(c) == pc[c] = "read" /\ pc'[c] = "idle"

\* the last getDS call of caller c has returned; loc[c] holds its arguments
\* and what it returned
Returned(c) == pc[c] = "idle" /\ loc[c].calls > 0

\* ------------------------------------------------------------------------
\* C1
\* ------------------------------------------------------------------------
\* C1: after a successful refresh, every uid the catalog reported for an org
\* is a key of that org's published index, so the lookup of (org, uid) finds
\* a descriptor.
C1_UidKeysResolve ==
  Published =>
    \A i \in 1..Len(catalog) : Lookup(cache, catalog[i].OrgId, catalog[i].Uid) # NilDS

\* a snapshot built from two records of one org with different uids
C1_Witness ==
  /\ Published
  /\ Len(catalog) = 2
  /\ catalog[1].OrgId = catalog[2].OrgId
  /\ catalog[1].Uid # catalog[2].Uid

\* ------------------------------------------------------------------------
\* C2
\* ------------------------------------------------------------------------
\* the records of org g whose uid or name is "default"
NamedDefault(g) ==
  {i \in RecordsOf(g) : catalog[i].Uid = "default" \/ catalog[i].Name = "default"}

\* C2 as claimed: in every published snapshot every org index holds "" and
\* "default", and both resolve to the same descriptor, whatever the catalog.
C2_Original ==
  Published =>
    \A g \in DOMAIN cache.m :
      /\ "" \in DOMAIN cache.m[g]
      /\ "default" \in DOMAIN cache.m[g]
      /\ cache.m[g][""] = cache.m[g]["default"]

\* C2 as amended: in every published snapshot every org index holds "" and
\* "default"; "default" resolves to the same descriptor as "" unless a record
\* of the org has the uid or the name "default", and then it resolves to that
\* descriptor or to such a record.
C2_DefaultKeys ==
  Published =>
    \A g \in DOMAIN cache.m :
      /\ "" \in DOMAIN cache.m[g]
      /\ "default" \in DOMAIN cache.m[g]
      /\ \/ cache.m[g][""] = cache.m[g]["default"]
         \/ \E i \in NamedDefault(g) : Describes(cache.m[g]["default"], catalog[i])

\* an index whose "default" is a record named so and whose "" is another descriptor
C2_Witness ==
  /\ Published
  /\ \E g \in DOMAIN cache.m :
       /\ NamedDefault(g) # {}
       /\ cache.m[g][""] # cache.m[g]["default"]

\* ------------------------------------------------------------------------
\* C3
\* ------------------------------------------------------------------------
\* the records of org g marked isDefault
DefaultsOf(g) == {i \in RecordsOf(g) : catalog[i].IsDefault}

\* C3: after a successful refresh, in every org that has an index the lookup
\* of "" finds a record of the org marked isDefault when the org has one, and
\* the built-in descriptor otherwise; never a record not marked isDefault.
C3_EmptyKeyIsDefault ==
  Published =>
    \A g \in DOMAIN cache.m :
      IF DefaultsOf(g) = {}
      THEN Lookup(cache, g, "") = gds
      ELSE \E i \in DefaultsOf(g) : Describes(Lookup(cache, g, ""), catalog[i])

\* a snapshot of an org whose default record is followed by a record that is not
C3_Witness ==
  /\ Published
  /\ Len(catalog) = 2
  /\ catalog[1].OrgId = catalog[2].OrgId
  /\ catalog[1].IsDefault
  /\ ~catalog[2].IsDefault
  /\ Describes(Lookup(cache, catalog[1].OrgId, ""), catalog[1])

\* ------------------------------------------------------------------------
\* C4
\* ------------------------------------------------------------------------
\* C4 as claimed: in the snapshot a refresh publishes, an org without any
\* record in the catalog the refresh queried has the built-in descriptor
\* under "" and a descriptor with pluginExists under the built-in uid, which
\* is what getDS returns for them.
C4_BuiltInForEveryOrg ==
  [][\A c \in Callers :
       (pc[c] = "publish" /\ pc'[c] = "getnow") =>
         \A g \in Orgs :
           (\A i \in 1..Len(loc[c].result) : loc[c].result[i].OrgId # g) =>
             /\ Lookup(cache', g, "") = gds
             /\ Lookup(cache', g, DatasourceUID) # NilDS
             /\ Lookup(cache', g, DatasourceUID).PluginExists]_vars

\* ------------------------------------------------------------------------
\* C5
\* ------------------------------------------------------------------------
\* C5: a getDS of a single caller takes the snapshot for fresh exactly when
\* one exists and its timestamp is at most one minute older than the getNow()
\* of the call; it then queries the catalog not at all, and exactly once
\* otherwise.
C5_Staleness ==
  [][\A c \in Callers :
       /\ EnterStep(c) => loc'[c].stale = cache.isNil
       /\ (pc[c] = "test" /\ pc'[c] = "test_now") => loc'[c].t = now
       /\ TimestampStep(c) => loc'[c].seen = timestamp
       /\ DecideStep(c) =>
            loc'[c].stale = ~((IF pc[c] = "test_ts" THEN now ELSE loc[c].t) - timestamp <= Minute)
       /\ ReadStep(c) => loc[c].queries = IF loc[c].stale THEN 1 ELSE 0]_vars

\* a getDS that did not query, on a snapshot exactly one minute old
C5_Witness ==
  \E c \in Callers :
    /\ Returned(c)
    /\ loc[c].queries = 0
    /\ ~loc[c].stale
    /\ Published
    /\ now - timestamp = Minute

\* ------------------------------------------------------------------------
\* C6
\* ------------------------------------------------------------------------
\* C6: when the catalog query of a refresh fails, the step leaves the
\* snapshot and its timestamp as they were, so that every lookup yields what
\* it yielded before, and check() returns the catalog's error.
C6_FailureIsolation ==
  [][\A c \in Callers :
       (pc[c] = "query" /\ pc'[c] # "query" /\ loc'[c].queried = "failed") =>
         /\ cache' = cache
         /\ timestamp' = timestamp
         /\ pc'[c] = "unlock"
         /\ loc'[c].err = ErrCatalog]_vars

\* a getDS whose refresh failed has returned the descriptor of the snapshot
\* it found stale, which is still the live one
C6_Witness ==
  \E c \in Callers :
    /\ Returned(c)
    /\ loc[c].queried = "failed"
    /\ loc[c].err = ErrCatalog
    /\ loc[c].ds # NilDS
    /\ loc[c].seen # ZeroTime
    /\ timestamp = loc[c].seen
    /\ loc[c].ds = Lookup(cache, loc[c].orgID, loc[c].uid)

\* ------------------------------------------------------------------------
\* C7
\* ------------------------------------------------------------------------
\* C7 as claimed: a successful refresh that follows a successful refresh of
\* the same catalog and plugins publishes an equal snapshot.
C7_Idempotent ==
  [][(Refresh /\ last.op = "check" /\ last.err = NilErr /\ last'.err = NilErr)
       => cache' = cache]_vars

\* ------------------------------------------------------------------------
\* C8
\* ------------------------------------------------------------------------
\* C8: a getDS that returns no descriptor, because the org has no index or the
\* index has no entry for the identifier, returns a non-nil error.
C8_Original ==
  \A c \in Callers : (Returned(c) /\ loc[c].ds = NilDS) => loc[c].err # NilErr

\* ------------------------------------------------------------------------
\* C9
\* ------------------------------------------------------------------------
\* C9 as claimed: getDS never returns a descriptor together with an error.
C9_Original ==
  \A c \in Callers : Returned(c) => ~(loc[c].ds # NilDS /\ loc[c].err # NilErr)

\* C9 as amended: getDS returns a descriptor together with an error exactly
\* when the catalog query of its refresh failed and the snapshot that is live
\* when it does its lookup holds the identifier; otherwise a descriptor comes
\* with no error.
C9_DescriptorWithError ==
  [][\A c \in Callers :
       ReadStep(c) =>
         ((loc'[c].ds # NilDS /\ loc'[c].err # NilErr)
            <=> (/\ loc[c].queried = "failed"
                 /\ Lookup(cache, loc[c].orgID, loc[c].uid) # NilDS))]_vars

\* a getDS whose query failed when there was no snapshot has returned the
\* error with a descriptor of the snapshot another caller published meanwhile
C9_Witness ==
  \E c \in Callers :
    /\ Returned(c)
    /\ loc[c].ds # NilDS
    /\ loc[c].err = ErrCatalog
    /\ loc[c].calls = 1
    /\ loc[c].old = ZeroTime

\* ------------------------------------------------------------------------
\* C10
\* ------------------------------------------------------------------------
\* keys check() files whatever the catalog holds
ReservedKeys == {"", "default", DatasourceUID}

\* the keys a catalog record is looked up by
KeysOf(r) == {r.Uid, r.Name, Sprintf(r.Id)}

\* record i is marked isDefault and shares no key with another record of its
\* org nor with the reserved keys
FreeDefault(i) ==
  /\ catalog[i].IsDefault
  /\ KeysOf(catalog[i]) \cap ReservedKeys = {}
  /\ \A j \in RecordsOf(catalog[i].OrgId) \ {i} : KeysOf(catalog[j]) \cap KeysOf(catalog[i]) = {}

\* the lookups of org g by the keys of r, by "" and by "default" all find r,
\* with pluginExists as the registry answers for r's type
FiveLookups(g, r) ==
  \A k \in KeysOf(r) \cup {"", "default"} :
    /\ Describes(Lookup(cache, g, k), r)
    /\ Lookup(cache, g, k).PluginExists = (r.Type \in plugins)

\* C10 as claimed: after a successful refresh the five lookups find every
\* record marked isDefault whose keys collide with no other key of its org and
\* with no reserved key.
C10_Original ==
  Published =>
    \A i \in 1..Len(catalog) : FreeDefault(i) => FiveLookups(catalog[i].OrgId, catalog[i])

\* C10 as amended: the same, for a record that is the only one of its org
\* marked isDefault, in an org where no record has the uid or name "default".
C10_FiveLookups ==
  Published =>
    \A i \in 1..Len(catalog) :
      (/\ FreeDefault(i)
       /\ DefaultsOf(catalog[i].OrgId) = {i}
       /\ NamedDefault(catalog[i].OrgId) = {})
        => FiveLookups(catalog[i].OrgId, catalog[i])

\* a default record named as the scenario's, beside another record of its org
C10_Witness ==
  /\ Published
  /\ \E i \in 1..Len(catalog) :
       /\ FreeDefault(i)
       /\ DefaultsOf(catalog[i].OrgId) = {i}
       /\ NamedDefault(catalog[i].OrgId) = {}
       /\ Cardinality(RecordsOf(catalog[i].OrgId)) = 2
       /\ catalog[i].Uid = "abc" /\ catalog[i].Name = "Prometheus"
       /\ FiveLookups(catalog[i].OrgId, catalog[i])

\* ------------------------------------------------------------------------
\* C11
\* ------------------------------------------------------------------------
\* d is the built-in descriptor, field by field
IsBuiltIn(d) ==
  /\ d # NilDS
  /\ d.UID = DatasourceUID /\ d.Name = DatasourceUID /\ d.Type = DatasourceUID
  /\ d.PluginExists
  /\ ~d.IsDefault

\* C11: in every published snapshot every org index holds the built-in uid,
\* and the descriptor under it is the built-in one, whatever the catalog holds
\* under that uid or name.
C11_BuiltInKey ==
  Published =>
    \A g \in DOMAIN cache.m :
      DatasourceUID \in DOMAIN cache.m[g] /\ IsBuiltIn(cache.m[g][DatasourceUID])

\* a snapshot of an org with a record whose uid is the built-in's and another
\* whose name is
C11_Witness ==
  /\ Published
  /\ \E i, j \in 1..Len(catalog) :
       /\ catalog[i].OrgId = catalog[j].OrgId
       /\ catalog[i].Uid = DatasourceUID
       /\ catalog[j].Uid # DatasourceUID /\ catalog[j].Name = DatasourceUID

\* ------------------------------------------------------------------------
\* C17
\* ------------------------------------------------------------------------
\* the uids of the records of org g are pairwise different
UniqueUIDs(g) ==
  \A i, j \in RecordsOf(g) : catalog[i].Uid = catalog[j].Uid => i = j

\* key k of record i is used by no other record of its org and is not reserved
FreeKey(i, k) ==
  /\ k \notin ReservedKeys
  /\ \A j \in RecordsOf(catalog[i].OrgId) \ {i} : k \notin KeysOf(catalog[j])

\* the secondary keys of record i
SecondaryKeys(i) == {Sprintf(catalog[i].Id), catalog[i].Name}

\* no uid key of org g that is not reserved holds a record of another uid
UidEntriesKept(g) ==
  \A i \in RecordsOf(g) :
    catalog[i].Uid \notin ReservedKeys => Lookup(cache, g, catalog[i].Uid).UID = catalog[i].Uid

\* C17 as claimed: after a successful refresh the id and name keys of every
\* record are in its org's index, each holds a record of the org, and holds
\* the record itself when the key is free; no uid entry is replaced.
C17_Original ==
  Published =>
    \A i \in 1..Len(catalog) :
      LET g == catalog[i].OrgId
      IN /\ \A k \in SecondaryKeys(i) :
              /\ \E j \in RecordsOf(g) : Describes(Lookup(cache, g, k), catalog[j])
              /\ FreeKey(i, k) => Describes(Lookup(cache, g, k), catalog[i])
         /\ UidEntriesKept(g)

\* C17 as amended: the same for the orgs whose uids are pairwise different,
\* where a key that is "" or the built-in uid may hold the org's default or the
\* built-in descriptor instead of a record.
C17_InsertIfAbsent ==
  Published =>
    \A i \in 1..Len(catalog) :
      LET g == catalog[i].OrgId
      IN UniqueUIDs(g) =>
           /\ \A k \in SecondaryKeys(i) :
                /\ \/ \E j \in RecordsOf(g) : Describes(Lookup(cache, g, k), catalog[j])
                   \/ k \in {"", DatasourceUID} /\ IsBuiltIn(Lookup(cache, g, k))
                /\ FreeKey(i, k) => Describes(Lookup(cache, g, k), catalog[i])
           /\ UidEntriesKept(g)

\* two records of one org, different uids, the same name: the name holds one
\* of them, and the id of the first, which is free, holds the first
C17_Witness ==
  /\ Published
  /\ Len(catalog) = 2
  /\ catalog[1].OrgId = catalog[2].OrgId
  /\ catalog[1].Uid # catalog[2].Uid
  /\ catalog[1].Name = catalog[2].Name
  /\ FreeKey(1, Sprintf(catalog[1].Id))
  /\ Describes(Lookup(cache, catalog[1].OrgId, catalog[1].Name), catalog[2])

\* ------------------------------------------------------------------------
\* C18
\* ------------------------------------------------------------------------
\* C18: in an org whose uids are pairwise different, after a successful
\* refresh the lookup of the uid of a record, when the uid is neither "" nor
\* the built-in's, finds that record, all fields equal and pluginExists as the
\* registry answers.
C18_UidPrecedence ==
  Published =>
    \A i \in 1..Len(catalog) :
      LET r == catalog[i]
      IN (UniqueUIDs(r.OrgId) /\ r.Uid \notin {"", DatasourceUID}) =>
           /\ Describes(Lookup(cache, r.OrgId, r.Uid), r)
           /\ Lookup(cache, r.OrgId, r.Uid).PluginExists = (r.Type \in plugins)

\* a record of uid "default" beside a record whose name and id are its uid
C18_Witness ==
  /\ Published
  /\ \E i, j \in 1..Len(catalog) :
       /\ i # j
       /\ catalog[i].OrgId = catalog[j].OrgId
       /\ catalog[i].Uid # catalog[j].Uid
       /\ catalog[i].Uid \in {catalog[j].Name, Sprintf(catalog[j].Id)}
       /\ catalog[j].Uid = "default"
       /\ Describes(Lookup(cache, catalog[j].OrgId, "default"), catalog[j])

\* ------------------------------------------------------------------------
\* C19
\* ------------------------------------------------------------------------
\* C19: in every published snapshot every descriptor of an org's index is a
\* catalog record of that org or the built-in descriptor, and there is no
\* index of an org without records.
C19_TenantIsolation ==
  Published =>
    \A g \in DOMAIN cache.m :
      /\ RecordsOf(g) # {}
      /\ \A k \in DOMAIN cache.m[g] :
           \/ IsBuiltIn(Lookup(cache, g, k))
           \/ \E i \in RecordsOf(g) : Describes(Lookup(cache, g, k), catalog[i])

\* a snapshot of two orgs whose records share the uid and differ in the name
C19_Witness ==
  /\ Published
  /\ Len(catalog) = 2
  /\ catalog[1].OrgId # catalog[2].OrgId
  /\ catalog[1].Uid = catalog[2].Uid
  /\ catalog[1].Name # catalog[2].Name

\* ------------------------------------------------------------------------
\* C20
\* ------------------------------------------------------------------------
\* every record descriptor of snapshot c has the pluginExists that registry p
\* answers for its type
PluginsAsOf(c, p) ==
  \A g \in DOMAIN c.m : \A k \in DOMAIN c.m[g] :
    LET d == c.m[g][k]
    IN IsBuiltIn(d) \/ d.PluginExists = (d.Type \in p)

\* the descriptors of the org maps m
DescriptorsOf(m) == UNION {{m[g][k] : k \in DOMAIN m[g]} : g \in DOMAIN m}

\* C20 as claimed: the record descriptors of a published snapshot carry the
\* answers the registry gave at one moment.
C20_Original ==
  Published => \E p \in SUBSET Types : PluginsAsOf(cache, p)

\* C20 as amended: the descriptor the first loop files for a record has the
\* pluginExists the registry answers at that iteration; the second loop and
\* the publish add no descriptor but the built-in one; every other step, a
\* change of the registry included, leaves the published snapshot as it is;
\* and getDS returns the published descriptor.
C20_PluginSnapshot ==
  [][\A c \in Callers :
       /\ (pc[c] = "file" /\ loc'[c].i = loc[c].i + 1) =>
            LET r == loc[c].result[loc[c].i]
            IN /\ Describes(loc'[c].cache[r.OrgId][r.Uid], r)
               /\ loc'[c].cache[r.OrgId][r.Uid].PluginExists = (r.Type \in plugins)
               /\ r.IsDefault => loc'[c].defaultDS[r.OrgId] = loc'[c].cache[r.OrgId][r.Uid]
       /\ (pc[c] = "index" /\ pc'[c] = "publish") =>
            DescriptorsOf(loc'[c].cache) \subseteq
              DescriptorsOf(loc[c].cache)
                \cup {loc[c].defaultDS[g] : g \in DOMAIN loc[c].defaultDS} \cup {gds}
       /\ (pc[c] = "publish" /\ pc'[c] = "getnow") =>
            cache' = [isNil |-> FALSE, m |-> loc[c].cache]
       /\ (\A d \in Callers : ~(pc[d] = "publish" /\ pc'[d] = "getnow")) => cache' = cache
       /\ ReadStep(c) => loc'[c].ds = Lookup(cache, loc[c].orgID, loc[c].uid)]_vars

\* getDS returned, without a refresh, a record whose pluginExists is no longer
\* what the registry answers, from a snapshot whose two records of one type
\* differ in pluginExists
C20_Witness ==
  /\ Published
  /\ \E c \in Callers :
       /\ Returned(c)
       /\ loc[c].queries = 0
       /\ loc[c].ds # NilDS /\ ~IsBuiltIn(loc[c].ds)
       /\ loc[c].ds.PluginExists # (loc[c].ds.Type \in plugins)
  /\ \E g, h \in DOMAIN cache.m :
       /\ "abc" \in DOMAIN cache.m[g] /\ "abc" \in DOMAIN cache.m[h]
       /\ cache.m[g]["abc"].Type = cache.m[h]["abc"].Type
       /\ cache.m[g]["abc"].PluginExists # cache.m[h]["abc"].PluginExists

\* ------------------------------------------------------------------------
\* C12
\* ------------------------------------------------------------------------
\* C12: a caller that holds the mutex and finds the timestamp different from
\* the one it captured leaves check() with no error, with no catalog query of
\* its own, and with the snapshot and the timestamp as they were.
C12_Guard ==
  [][\A c \in Callers :
       (pc[c] = "recheck" /\ pc'[c] # "recheck" /\ timestamp # loc[c].old) =>
         /\ pc'[c] = "unlock"
         /\ loc'[c].err = NilErr
         /\ loc'[c].queried = "no"
         /\ cache' = cache
         /\ timestamp' = timestamp]_vars

\* a caller back from a check() that found the timestamp changed under it
C12_Witness ==
  \E c \in Callers :
    /\ pc[c] = "read"
    /\ loc[c].stale
    /\ loc[c].old # timestamp
    /\ loc[c].queried = "no"
    /\ \E d \in Callers \ {c} : loc[d].queried = "ok"

\* ------------------------------------------------------------------------
\* C13
\* ------------------------------------------------------------------------
\* C13: two callers that found the same snapshot stale do not both query the
\* catalog with success.
C13_QueriedOnce ==
  \A c, d \in Callers :
    (c # d /\ loc[c].stale /\ loc[d].stale /\ loc[c].seen = loc[d].seen) =>
      ~(loc[c].queried = "ok" /\ loc[d].queried = "ok")

\* ------------------------------------------------------------------------
\* C14
\* ------------------------------------------------------------------------
\* C14: at most one caller is between the re-check and the end of the publish,
\* and the mutex is held by a caller exactly while it is there, so every way
\* out of check() has released it.
C14_MutualExclusion ==
  /\ \A c, d \in Callers : (pc[c] \in Critical /\ pc[d] \in Critical) => c = d
  /\ \A c \in Callers : (mu = c) <=> (pc[c] \in Critical)
  /\ mu \in Callers \cup {0}

\* a caller is back from a check() whose query failed while the other, in its
\* last call, is inside and holds the mutex
C14_Witness ==
  \E c, d \in Callers :
    /\ c # d
    /\ pc[d] \in Critical
    /\ mu = d
    /\ pc[c] = "read"
    /\ loc[c].queried = "failed"
    /\ loc[d].calls = MaxCalls

\* ------------------------------------------------------------------------
\* C15
\* ------------------------------------------------------------------------
\* index m of an org is complete: the built-in key, "" and "default" are
\* there, and so are the id and the name of every descriptor in it
CompleteIndex(m) ==
  /\ {DatasourceUID, "", "default"} \subseteq DOMAIN m
  /\ \A k \in DOMAIN m :
       IsBuiltIn(m[k]) \/ {Sprintf(m[k].InternalID), m[k].Name} \subseteq DOMAIN m

\* snapshot c is absent, or holds a complete index for every org of the
\* catalog with the uid of every record in it
FullyBuilt(c) ==
  \/ c.isNil
  \/ /\ \A g \in DOMAIN c.m : CompleteIndex(c.m[g])
     /\ \A i \in 1..Len(catalog) :
          /\ catalog[i].OrgId \in DOMAIN c.m
          /\ catalog[i].Uid \in DOMAIN c.m[catalog[i].OrgId]

\* C15: the live snapshot is absent or fully built after every step; it
\* changes only when a caller at line 111 replaces it by the map it has
\* completed; and a caller does its lookup only once its check() has returned
\* and released the mutex.
C15_WholesaleReplacement ==
  [][/\ FullyBuilt(cache')
     /\ cache' # cache =>
          \E c \in Callers :
            /\ pc[c] = "publish" /\ pc'[c] = "getnow"
            /\ cache' = [isNil |-> FALSE, m |-> loc[c].cache]
     /\ \A c \in Callers :
          (pc[c] = "read" /\ pc'[c] = "idle") =>
            /\ mu # c
            /\ loc'[c].ds = Lookup(cache, loc[c].orgID, loc[c].uid)]_vars

\* a snapshot is live while another caller has a half-built map in hand, and
\* a caller that refreshed is about to do its lookup
C15_Witness ==
  /\ Published
  /\ \E c, d \in Callers :
       /\ pc[c] = "index"
       /\ ~FullyBuilt([isNil |-> FALSE, m |-> loc[c].cache])
       /\ pc[d] = "read" /\ loc[d].queried = "ok"

\* ------------------------------------------------------------------------
\* C16
\* ------------------------------------------------------------------------
\* C16: a caller that has read a published snapshot at line 120 reads, in the
\* same evaluation, a timestamp some publish has stored, not the one from
\* before the snapshot was published.
C16_PublishAtomic ==
  [][\A c \in Callers :
       TimestampStep(c) => timestamp # ZeroTime]_vars

\* ------------------------------------------------------------------------
\* C21
\* ------------------------------------------------------------------------
\* C21: under a fair scheduler every getDS call that has begun returns, a
\* caller that waits for the mutex gets it, and whenever a call is under way
\* some caller can take a step.
C21_Termination ==
  /\ \A c \in Callers : (pc[c] # "idle") ~> (pc[c] = "idle")
  /\ \A c \in Callers : (pc[c] = "lock") ~> (mu = c)
  /\ []((\E c \in Callers : pc[c] # "idle") => \E c \in Callers : ENABLED Step(c))

\* both callers have returned from all their calls, one of them from a call
\* that waited for the mutex and found the refresh done by the other
C21_Witness ==
  /\ \A c \in Callers : pc[c] = "idle" /\ loc[c].calls = MaxCalls
  /\ \E c, d \in Callers :
       /\ c # d
       /\ loc[c].stale /\ loc[c].queried = "no" /\ loc[c].ds # NilDS
       /\ loc[d].queried = "ok"

====
